---- MODULE Spec2Model ----
(***************************************************************************)
(* A model of the component-architecture examples of the blog repository:  *)
(* the presentational text field, its money decoration, the remember-value *)
(* higher-order component and the redux-connected text field with its      *)
(* text-field reducer.                                                     *)
(*                                                                         *)
(* JavaScript objects whose identity matters (the reducer's state objects  *)
(* and the root state objects of combineReducers) live in heaps: a         *)
(* reference is an index into a heap, 0 is `undefined`, and allocating an  *)
(* object appends to the heap.  Two references are === exactly when the    *)
(* indices are equal.                                                      *)
(***************************************************************************)
EXTENDS Integers, Sequences, FiniteSets, TLC

VARIABLES
  tfHeap,      \* heap of text-field state objects: <<[value |-> ...], ...>>
  rootHeap,    \* heap of root state objects: <<[textField |-> ref], ...>>
  root,        \* store.getState(): a reference into rootHeap
  dispatched,  \* whether store.dispatch has been called since the store was created
  mounted,     \* whether ReactDOM.render has mounted the examples
  mounts,      \* how many times the examples have been mounted
  fetchCalls,  \* how many times fetch(...) has been called
  inFlight,    \* how many fetches have not settled yet
  owners,      \* per fetch not settled yet: the mount that started it
  seen,        \* per subscribed component: the container states delivered since its mount
  connected,   \* props ConnectedTextField passed to TextField on its last render
  tracker,     \* per RememberValueComponent instance: made, this.state.value, this.props
  trackerOut,  \* props each RememberValueComponent passed to Component on its last render
  received,    \* per RememberValueComponent instance: the value of its latest change event
  select,      \* the Select component of the web-components article
  list,        \* the List component of the web-components article
  view,        \* the last render of a presentational component by a caller of its own
  last         \* the last event handled

vars == <<tfHeap, rootHeap, root, dispatched, mounted, mounts, fetchCalls, inFlight,
          owners, connected, seen, tracker, trackerOut, received, view,
          select, list, last>>

\* ------------------------------------------------------------------ bounds

\* Largest number of text-field state objects ever allocated.
MaxObjects == 4

\* Largest number of text-field state objects allocated while the
\* remember-value components run beside the store.
MaxSharedObjects == 2

\* Largest number of times the examples are mounted.
MaxMounts == 2

\* The Select is followed for at most MaxChanges changes of its value.
MaxChanges == 5

\* Largest number of items (props.refs.length) of a List.
MaxRefs == 4

\* ------------------------------------------------------------------ values

\* JavaScript's undefined and null, as slot values.
Undefined == "<undefined>"
Null == "<null>"

\* Strings an input element can hold (event.target.value, data.value).
Values == {"", "asdf", "abc"}

\* Action types dispatched to the store: the one the reducer handles, the one
\* named UPDATE_VALUE, and redux's own initialisation action.
InitType == "@@redux/INIT"
ActionTypes == {"UPDATE_TEXT_FIELD", "UPDATE_VALUE", InitType}

Actions == [type : ActionTypes, payload : Values]

\* ------------------------------------------------------------------ reducer

\* A buggy default state with an empty value.
initialState_Empty == [value |-> ""]

\* const initialState = { value: 'asdf' }: the object at reference 1.
initialState == [value |-> "asdf"]
InitialStateRef == 1
InitialTfHeap == <<initialState>>

\* The result of a reducer call: the reference returned and the heap after.
Result(ref, heap) == [ref |-> ref, heap |-> heap]

\* A buggy updateValue that assigns in place and returns the same object.
updateValue_InPlace(h, state, value) ==
  Result(state, [h EXCEPT ![state].value = value])

\* A buggy updateValue without the equal-value early return.
updateValue_AlwaysCopy(h, state, value) ==
  Result(Len(h) + 1, Append(h, [h[state] EXCEPT !.value = value]))

\* A buggy updateValue that never stores the value.
updateValue_Ignore(h, state, value) ==
  Result(state, h)

\* A buggy updateValue that replaces the initial state only: a value once
\* stored is never overwritten.
updateValue_OnlyFirst(h, state, value) ==
  IF h[state].value = value \/ state # InitialStateRef
    THEN Result(state, h)
    ELSE Result(Len(h) + 1, Append(h, [h[state] EXCEPT !.value = value]))

\* function updateValue(state, value)
updateValue(h, state, value) ==
  IF h[state].value = value
    THEN Result(state, h)
    ELSE Result(Len(h) + 1, Append(h, [h[state] EXCEPT !.value = value]))

\* A buggy reducer whose default branch returns a copy of the state.
textFieldReducer_DefaultCopies(h, state, action) ==
  LET st == IF state = 0 THEN InitialStateRef ELSE state
  IN  CASE action.type = "UPDATE_TEXT_FIELD" -> updateValue(h, st, action.payload)
        [] OTHER -> Result(Len(h) + 1, Append(h, h[st]))

\* function textFieldReducer(state = initialState, action)
textFieldReducer(h, state, action) ==
  LET st == IF state = 0 THEN InitialStateRef ELSE state
  IN  CASE action.type = "UPDATE_TEXT_FIELD" -> updateValue(h, st, action.payload)
        [] OTHER -> Result(st, h)

\* combineReducers({ textField: textFieldReducer }): the next root state holds
\* each key's reducer result, and is the previous root object when no key changed.
rootReducer(th, rh, state, action) ==
  LET prevTf == IF state = 0 THEN 0 ELSE rh[state].textField
      r      == textFieldReducer(th, prevTf, action)
      hasChanged == r.ref # prevTf
  IN  IF hasChanged
        THEN [root |-> Len(rh) + 1,
              rootHeap |-> Append(rh, [textField |-> r.ref]),
              tfHeap |-> r.heap]
        ELSE [root |-> state, rootHeap |-> rh, tfHeap |-> r.heap]

\* store/singleton.js: createStore(rootReducer) dispatches the init action on
\* an undefined state.
createStore == rootReducer(InitialTfHeap, <<>>, 0, [type |-> InitType, payload |-> ""])

\* actions.updateValue(value): the update action the reducer handles.
actionsUpdateValue(value) == [type |-> "UPDATE_TEXT_FIELD", payload |-> value]

\* store.getState().textField and its value.
TextFieldRef == rootHeap[root].textField
TextFieldValue == tfHeap[TextFieldRef].value

\* ------------------------------------------------------------------ props

\* An element (a node of a display tree).  The undefined and null nodes are
\* what an absent or null slot holds; React renders neither.
Node(el, content, onChange, value) ==
  [el |-> el, content |-> content, onChange |-> onChange, value |-> value]
UndefinedNode == Node(Undefined, Undefined, Undefined, Undefined)
NullNode == Node(Null, Null, Null, Null)
Div(text) == Node("div", text, Undefined, Undefined)

\* The slots of an input record (this.props / props).  `other` stands for any
\* further slot a caller may supply.
Props(labelText, onChange, postfix, prefix, value, other) ==
  [labelText |-> labelText, onChange |-> onChange, postfix |-> postfix,
   prefix |-> prefix, value |-> value, other |-> other]
NoProps == Props(Undefined, Undefined, UndefinedNode, UndefinedNode, Undefined, Undefined)

\* Event handlers, by identity.
CallerHandler == "caller.onChange"
ConnectedHandler == "ConnectedTextField.onChange"
TrackerHandler(i) == "RememberValueComponent.onChange@" \o i

\* Input records a caller may pass to a presentational component.
SlotNodes == {UndefinedNode, NullNode, Div("@")}
RenderProps ==
  [labelText : {Undefined, "Name"}, onChange : {Undefined, CallerHandler},
   postfix : SlotNodes, prefix : SlotNodes,
   value : {Undefined} \cup Values, other : {Undefined, "id-1"}]

\* Input records a caller may pass to a RememberValueComponent: with or
\* without a value of its own, and with or without a handler of its own, the
\* latter together with a label, decorations and a further attribute.
TrackerProps ==
  { Props(l.labelText, l.onChange, l.postfix, l.prefix, v, l.other) :
      l \in { [labelText |-> Undefined, onChange |-> Undefined,
               postfix |-> UndefinedNode, prefix |-> UndefinedNode,
               other |-> Undefined],
              [labelText |-> "Name", onChange |-> CallerHandler,
               postfix |-> NullNode, prefix |-> Div("@"),
               other |-> "id-1"] },
      v \in {Undefined, "abc"} }

\* The input records a parent's re-render may pass to a RememberValueComponent
\* of the page: nothing, as AllExamples does, or a label, a handler and a
\* value together.
PageTrackerProps ==
  { props \in TrackerProps : (props.onChange = Undefined) <=> (props.value = Undefined) }

\* ------------------------------------------------------------------ renderers

\* A copypasta of the text field that hardcodes its decorations.
PresentationalTextField_Hardcoded(props) ==
  << Node("label", props.labelText, Undefined, Undefined),
     Div("$$$"),
     Node("input", Undefined, props.onChange, props.value),
     Div("clear") >>

\* function PresentationalTextField(props): the children of the <div> it returns.
PresentationalTextField(props) ==
  << Node("label", props.labelText, Undefined, Undefined),
     props.prefix,
     Node("input", Undefined, props.onChange, props.value),
     props.postfix >>

\* A buggy default label, the money copypasta's.
defaultProps_MoneyField(props) ==
  [props EXCEPT !.labelText = IF @ = Undefined THEN "Money Field" ELSE @]

\* PresentationalTextField.defaultProps, as React.createElement resolves them:
\* a default replaces a slot that is undefined.
defaultProps(props) ==
  [props EXCEPT !.labelText = IF @ = Undefined THEN "Text Field" ELSE @]

\* PresentationalTextField.propTypes: for each slot, whether it is declared
\* with .isRequired.  No slot is.
propTypes ==
  [labelText |-> [type |-> "string", isRequired |-> FALSE],
   onChange  |-> [type |-> "func", isRequired |-> FALSE],
   postfix   |-> [type |-> "element", isRequired |-> FALSE],
   prefix    |-> [type |-> "element", isRequired |-> FALSE],
   value     |-> [type |-> "string", isRequired |-> FALSE]]

\* React's check of an element's props against propTypes: the slots it warns
\* about.  A slot declared .isRequired fails when it is undefined or null
\* (UndefinedNode and NullNode for an element slot); the input records here
\* hold values of the declared types only.
propTypeWarnings(props) ==
  { slot \in DOMAIN propTypes :
      /\ propTypes[slot].isRequired
      /\ props[slot] \in {Undefined, Null, UndefinedNode, NullNode} }

\* What React puts in the document for a list of children: undefined and null
\* children render nothing.
Rendered(children) ==
  SelectSeq(children, LAMBDA n : n.el \notin {Undefined, Null})

\* The decorations CompositionalMoneyTextField hardcodes.
MoneyPrefix == Div("$")
MoneyPostfix == Div("clear")

\* A buggy decorator that spreads the caller's props after its own.
CompositionalMoneyTextField_CallerWins(props) ==
  [props EXCEPT !.prefix = IF @ = UndefinedNode THEN MoneyPrefix ELSE @,
                !.postfix = IF @ = UndefinedNode THEN MoneyPostfix ELSE @]

\* A buggy decorator that passes only the slots it names.
CompositionalMoneyTextField_NoSpread(props) ==
  [NoProps EXCEPT !.prefix = MoneyPrefix, !.postfix = MoneyPostfix,
                  !.onChange = props.onChange, !.value = props.value]

\* function CompositionalMoneyTextField(props): the props of the <TextField>
\* element it returns, {...props} first and the two decorations after.
CompositionalMoneyTextField(props) ==
  [props EXCEPT !.prefix = MoneyPrefix, !.postfix = MoneyPostfix]

\* ------------------------------------------------------------------ value tracker

\* The two components made by the remember-value factory, and what each wraps.
Trackers == {"RememberedTextField", "RememberedMoneyTextField"}

\* A buggy constructor that takes its first value from the caller's props.
trackerConstructor_FromProps(props) ==
  [made |-> TRUE,
   value |-> IF props.value = Undefined THEN "" ELSE props.value,
   props |-> props]

\* RememberValueComponent.constructor(props): this.state = { value: '' }.
trackerConstructor(props) ==
  [made |-> TRUE, value |-> "", props |-> props]

\* A buggy onChange that keeps the first value typed and drops later events.
trackerOnChange_KeepsFirst(t, newValue) ==
  IF t.value = "" THEN [t EXCEPT !.value = newValue] ELSE t

\* A buggy onChange that drops the event.
trackerOnChange_Drop(t, newValue) == t

\* RememberValueComponent.onChange(event): this.setState({ value: event.target.value }).
trackerOnChange(t, newValue) ==
  [t EXCEPT !.value = newValue]

\* A buggy render that makes a new handler each time, onChange={(event) =>
\* this.setState(...)}: the handler of a later render is not the one of
\* the first.
trackerRender_InlineHandler(i, t) ==
  [t.props EXCEPT !.onChange = IF t.value = "" THEN TrackerHandler(i)
                                ELSE TrackerHandler(i) \o "#" \o t.value,
                  !.value = t.value]

\* A buggy render that spreads this.props after its own two slots.
trackerRender_PropsLast(i, t) ==
  [t.props EXCEPT !.onChange = IF @ = Undefined THEN TrackerHandler(i) ELSE @,
                  !.value = IF @ = Undefined THEN t.value ELSE @]

\* RememberValueComponent.render(): the props of the <Component> element,
\* {...this.props} first, then onChange and value.
trackerRender(i, t) ==
  [t.props EXCEPT !.onChange = TrackerHandler(i), !.value = t.value]

\* A buggy re-render that takes the value from the new props.
trackerReceiveProps_ResetsValue(t, props) ==
  [t EXCEPT !.props = props,
            !.value = IF props.value = Undefined THEN "" ELSE props.value]

\* A re-render of a RememberValueComponent with new props: the class defines
\* no componentWillReceiveProps, so this.props is replaced and this.state kept.
trackerReceiveProps(t, props) ==
  [t EXCEPT !.props = props]

\* An instance that has not been constructed.
NoTracker == [made |-> FALSE, value |-> Undefined, props |-> NoProps]

\* ------------------------------------------------------------------ store binder

\* A buggy mapStateToProps that reads the reducer's default instead of the store.
mapStateToProps_Default(th, rh, state) ==
  [value |-> initialState.value]

\* const mapStateToProps = (state) => ({ value: state.textField.value })
mapStateToProps(th, rh, state) ==
  [value |-> th[rh[state].textField].value]

\* const mapDispatchToProps = (dispatch) => ({ onChange: (event) => ... })
mapDispatchToProps == [onChange |-> ConnectedHandler]

\* connect(mapStateToProps, mapDispatchToProps)(TextField): the props of the
\* <TextField> element for a store state.
ConnectedTextField(th, rh, state) ==
  [NoProps EXCEPT !.value = mapStateToProps(th, rh, state).value,
                  !.onChange = mapDispatchToProps.onChange]

\* ------------------------------------------------------------------ fetch on mount

\* What the server can answer to fetch('server-api/text-field.json'): no answer
\* (a network failure), a body that is not JSON, a body that is the JSON
\* object { "value": v }, or a body that is a JSON string holding the text of
\* that object (the object encoded twice).
Bodies ==
  { [kind |-> "network", value |-> ""], [kind |-> "malformed", value |-> ""] }
  \cup { [kind |-> k, value |-> v] : k \in {"object", "encoded"}, v \in Values }

\* A settled promise: fulfilled (ok) with a JavaScript value of type t, or rejected.
Fulfilled(t, kind, value) == [ok |-> TRUE, t |-> t, kind |-> kind, value |-> value]
Rejected == [ok |-> FALSE, t |-> "error", kind |-> "error", value |-> ""]

\* fetch(url): rejects on a network failure, else fulfils with the response.
fetchCall(body) ==
  IF body.kind = "network" THEN Rejected
  ELSE Fulfilled("response", body.kind, body.value)

\* response.json(): parses the body once.  A JSON object gives an object, a
\* JSON string gives the string it holds, anything else rejects.
responseJson(response) ==
  CASE response.kind = "object"  -> Fulfilled("object", response.kind, response.value)
    [] response.kind = "encoded" -> Fulfilled("string", response.kind, response.value)
    [] OTHER -> Rejected

\* JSON.parse(json): parses the text of its argument.  A string holding the
\* object's text gives the object; an object is turned into the text
\* "[object Object]", which is not JSON, and the call throws.
jsonParse(json) ==
  IF json.t = "string" THEN Fulfilled("object", json.kind, json.value) ELSE Rejected

\* promise.then(callback): the callback runs on a fulfilled promise, a
\* rejection passes through.
thenResponseJson(promise) == IF promise.ok THEN responseJson(promise) ELSE promise
thenJsonParse(promise) == IF promise.ok THEN jsonParse(promise) ELSE promise

\* A buggy fetchServerData that dispatches an empty value when the chain rejects.
fetchServerData_DispatchOnFailure(body) ==
  LET data == thenJsonParse(thenResponseJson(fetchCall(body)))
  IN  [dispatch |-> TRUE,
       action |-> actionsUpdateValue(IF data.ok THEN data.value ELSE "")]

\* A buggy fetchServerData that dispatches without the fetched value.
fetchServerData_DropsValue(body) ==
  LET data == thenJsonParse(thenResponseJson(fetchCall(body)))
  IN  [dispatch |-> data.ok, action |-> actionsUpdateValue("")]

\* fetchServerData: fetch(...).then(response => response.json())
\*   .then(json => JSON.parse(json)).then(data => dispatch(updateValue(data.value))),
\* with no rejection handler: whether the last step runs, and what it dispatches.
fetchServerData(body) ==
  LET data == thenJsonParse(thenResponseJson(fetchCall(body)))
  IN  [dispatch |-> data.ok, action |-> actionsUpdateValue(data.value)]

\* A buggy render that starts the fetch again.
allExamplesRender_Fetches(calls) == calls + 1

\* AllExamples.componentWillMount(): this.props.fetchServerData(), one more fetch.
allExamplesComponentWillMount(calls) == calls + 1

\* AllExamples.render(): starts no fetch.
allExamplesRender(calls) == calls

\* ------------------------------------------------------------------ the Select of the web-components article

\* useEffect(() => { setDidMount(true) }, []): the update it queues.
selectMountEffect(updates) == [updates EXCEPT !.didMount = TRUE]

\* The ref a Select is rendered with: a ref object, or none, for which
\* forwardRef passes null.
SelectRefs == {"ref", Null}

\* The onChange a Select is rendered with: a handler, or none.
SelectHandlers == {CallerHandler, Undefined}

\* What one run of an effect leaves: the calls of props.onChange it made, and
\* whether it threw.
EffectResult(calls, threw) == [calls |-> calls, threw |-> threw]

\* useEffect(() => { if (!didMount) return; props.onChange({ target: ref.current }) }, [value]):
\* one run, for the didMount of the render that scheduled it.  The argument
\* is evaluated first: ref.current throws a TypeError on a null ref; then the
\* call throws when props.onChange is not a function.
selectChangeEffect(didMount, ref, onChange) ==
  IF ~didMount THEN EffectResult(0, FALSE)
  ELSE IF ref = Null THEN EffectResult(0, TRUE)
  ELSE IF onChange = Undefined THEN EffectResult(0, TRUE)
  ELSE EffectResult(1, FALSE)

\* ------------------------------------------------------------------ the List of the web-components article

\* The keys of the key events a List is sent: the four it handles and one it
\* does not.
Keys == {"ArrowUp", "ArrowDown", "End", "Home", "Enter"}

\* What a run of onKeyDown leaves: the activeIndex state, and whether it
\* called keyEvent.preventDefault().
KeyResult(activeIndex, prevented) == [activeIndex |-> activeIndex, prevented |-> prevented]

\* A buggy handler whose ArrowDown has no guard at the last index.
listOnKeyDown_UnguardedDown(activeIndex, length, key) ==
  CASE key = "ArrowUp" ->
         IF activeIndex > 0 THEN KeyResult(activeIndex - 1, TRUE)
                            ELSE KeyResult(activeIndex, FALSE)
    [] key = "ArrowDown" -> KeyResult(activeIndex + 1, TRUE)
    [] key = "End" -> KeyResult(length - 1, TRUE)
    [] key = "Home" -> KeyResult(0, TRUE)
    [] OTHER -> KeyResult(activeIndex, FALSE)

\* function onKeyDown(keyEvent) of List, for the activeIndex of the render
\* that made it and props.refs.length.
listOnKeyDown(activeIndex, length, key) ==
  CASE key = "ArrowUp" ->
         IF activeIndex > 0 THEN KeyResult(activeIndex - 1, TRUE)
                            ELSE KeyResult(activeIndex, FALSE)
    [] key = "ArrowDown" ->
         IF activeIndex < length - 1 THEN KeyResult(activeIndex + 1, TRUE)
                                     ELSE KeyResult(activeIndex, FALSE)
    [] key = "End" -> KeyResult(length - 1, TRUE)
    [] key = "Home" -> KeyResult(0, TRUE)
    [] OTHER -> KeyResult(activeIndex, FALSE)

\* An item of the list: whether its ref is attached to a ListItem
\* (listItem.current is set), and the ListItem's `active`.
Item(attached, active) == [attached |-> attached, active |-> active]

\* The effect List runs after a render, for the active and activeIndex of
\* that render: when the list is active, the `active` of each item whose ref
\* is attached is set to whether its index is activeIndex.  items[k] is the
\* item of index k - 1.
listEffect(active, activeIndex, items) ==
  IF active
    THEN [k \in 1..Len(items) |->
            IF items[k].attached
              THEN Item(TRUE, k - 1 = activeIndex)
              ELSE items[k]]
    ELSE items

\* The handlers on the element List renders, <ul onFocus={onFocus}
\* tabIndex="-1">: onFocus is attached, onKeyDown is defined and attached to
\* nothing.
listUl == [onFocus |-> TRUE, onKeyDown |-> FALSE]

\* No effect of the List waits to run.
NoListEffect == [pending |-> FALSE, active |-> FALSE, activeIndex |-> 0]

\* The List before it is mounted.  `refs` is props.refs.length, `active` and
\* `activeIndex` its two useState cells, `items` the items, `effect` the
\* effect the last commit scheduled with the state of its render, `key`,
\* `prevIndex` and `prevented` the last key event, the activeIndex before it
\* and whether preventDefault was called, `handled` whether onKeyDown ran
\* for it.
NoList == [mounted |-> FALSE, refs |-> 0, active |-> FALSE, activeIndex |-> 0,
           items |-> << >>, effect |-> NoListEffect,
           key |-> "", prevIndex |-> 0, prevented |-> FALSE, handled |-> FALSE]

\* React runs the effect the last commit scheduled, if it has not run yet.
listFlushEffect(l) ==
  IF l.effect.pending
    THEN [l EXCEPT !.items = listEffect(l.effect.active, l.effect.activeIndex, @),
                   !.effect = NoListEffect]
    ELSE l

\* A render of the List commits and schedules its effect.
listCommit(l) ==
  [l EXCEPT !.effect = [pending |-> TRUE, active |-> l.active,
                        activeIndex |-> l.activeIndex]]

\* The List after a key event with the given result of onKeyDown: when the
\* handler set another activeIndex the List renders, after the effect of the
\* commit before.
listAfterKey(l, key, handled, result) ==
  LET event == [l EXCEPT !.key = key, !.prevIndex = l.activeIndex,
                         !.prevented = result.prevented, !.handled = handled]
  IN  IF result.activeIndex = l.activeIndex
        THEN event
        ELSE listCommit([listFlushEffect(event) EXCEPT
               !.activeIndex = result.activeIndex])

\* ------------------------------------------------------------------ observers

\* The components connect() subscribes to the store.
Observers == {"AllExamplesContainer", "ConnectedTextField"}

\* The last state of a run of states, 0 for none.
LastState(states) == IF states = << >> THEN 0 ELSE states[Len(states)]

\* The store's notification of one subscribed component inside dispatch:
\* its listener reads the store's state, which joins the states delivered to
\* it unless it is the state the component already has.
notify(states, state) ==
  IF LastState(states) = state
    THEN states
    ELSE Append(states, state)

\* The orders in which dispatch may call the listeners of the subscribed
\* components.
NotifyOrders ==
  {order \in [1..Cardinality(Observers) -> Observers] :
     \A j, k \in DOMAIN order : order[j] = order[k] => j = k}

\* dispatch calls the listeners one after the other, in the given order, each
\* with the same state of the store.
RECURSIVE notifyAll(_, _, _)
notifyAll(delivered, order, state) ==
  IF order = << >>
    THEN delivered
    ELSE notifyAll([delivered EXCEPT ![Head(order)] = notify(@, state)],
                   Tail(order), state)

\* ------------------------------------------------------------------ state machine

storeVars == <<tfHeap, rootHeap, root, dispatched>>
appVars == <<mounted, mounts, connected, seen>>
fetchVars == <<fetchCalls, inFlight, owners>>
trackerVars == <<tracker, trackerOut, received>>

NoView == [component |-> "none", props |-> NoProps, passed |-> NoProps,
           children |-> <<>>, output |-> <<>>, warnings |-> {}]

\* What a render of <PresentationalTextField {...props} /> leaves to see.
TextFieldView(props) ==
  [component |-> "PresentationalTextField",
   props |-> props,
   passed |-> props,
   children |-> PresentationalTextField(defaultProps(props)),
   output |-> Rendered(PresentationalTextField(defaultProps(props))),
   warnings |-> propTypeWarnings(defaultProps(props))]

\* What a render of <CompositionalMoneyTextField {...props} /> leaves to see.
MoneyTextFieldView(props) ==
  LET passed == CompositionalMoneyTextField(props)
  IN  [component |-> "CompositionalMoneyTextField",
       props |-> props,
       passed |-> passed,
       children |-> PresentationalTextField(defaultProps(passed)),
       output |-> Rendered(PresentationalTextField(defaultProps(passed))),
       warnings |-> propTypeWarnings(defaultProps(passed))]

\* The props AllExamples.render passes to its two presentational examples,
\* onChange={() => console.log(...)}, of which the money text field is
\* rendered last.
PageExampleProps == [NoProps EXCEPT !.onChange = CallerHandler]

\* The two remember-value components as AllExamples.render makes them,
\* <RememberedTextField /> and <RememberedMoneyTextField />, and what each
\* passes on its first render.
PageTrackers == [i \in Trackers |-> trackerConstructor(NoProps)]
PageTrackersOut == [i \in Trackers |-> trackerRender(i, PageTrackers[i])]

\* No effect waits to run, no state update waits for a render.
NoEffects == [mount |-> FALSE, change |-> FALSE, didMount |-> FALSE]
NoUpdates == [didMount |-> FALSE, value |-> Undefined]

\* The Select before it is mounted.  `ref` and `onChange` are what it is
\* rendered with, `didMount` and `value` its two useState cells, `effects` the
\* effects the last commit scheduled (with the didMount their closure holds),
\* `updates` the queued state updates, `calls` the calls of props.onChange,
\* `changes` the commits that changed `value`, and `threw` whether an effect
\* threw, on which React unmounts the tree.
NoSelect == [mounted |-> FALSE, ref |-> Null, onChange |-> Undefined,
             didMount |-> FALSE, value |-> Undefined,
             effects |-> NoEffects, updates |-> NoUpdates,
             calls |-> 0, changes |-> 0, threw |-> FALSE]

\* No server answer: the event was not the settling of a fetch.
NoBody == [kind |-> "", value |-> ""]

\* No mount: the event was not the settling of a fetch.
NoOwner == 0

\* The record of an event: what happened, the server answer it carried, the
\* mount that started the fetch it settled, and the store and the mount as
\* they were before it.
EventBy(op, who, type, payload, body, owner) ==
  [op |-> op, who |-> who, type |-> type, payload |-> payload, body |-> body,
   owner |-> owner,
   prevRoot |-> root, prevTf |-> TextFieldRef, prevValue |-> TextFieldValue,
   prevDispatched |-> dispatched, prevMounted |-> mounted,
   prevConnected |-> connected]

EventOf(op, who, type, payload, body) == EventBy(op, who, type, payload, body, NoOwner)

Event(op, who, type, payload) == EventOf(op, who, type, payload, NoBody)

Init ==
  /\ tfHeap = createStore.tfHeap
  /\ rootHeap = createStore.rootHeap
  /\ root = createStore.root
  /\ dispatched = FALSE
  /\ mounted = FALSE
  /\ mounts = 0
  /\ fetchCalls = 0
  /\ inFlight = 0
  /\ owners = << >>
  /\ connected = NoProps
  /\ seen = [o \in Observers |-> << >>]
  /\ tracker = [i \in Trackers |-> NoTracker]
  /\ trackerOut = [i \in Trackers |-> NoProps]
  /\ received = [i \in Trackers |-> Undefined]
  /\ view = NoView
  /\ select = NoSelect
  /\ list = NoList
  /\ last = [op |-> "init", who |-> "", type |-> InitType, payload |-> "",
             body |-> NoBody, owner |-> NoOwner, prevConnected |-> NoProps,
             prevRoot |-> 0, prevTf |-> 0, prevValue |-> Undefined,
             prevDispatched |-> FALSE, prevMounted |-> FALSE]

\* The fetches a render of the given mount started, n of them.
StartedBy(mount, n) == [k \in 1..n |-> mount]

\* ReactDOM.render(<Provider store={store}><AllExamplesContainer /></Provider>):
\* AllExamples.componentWillMount starts the fetch; its render makes the two
\* presentational examples and constructs and renders the two remember-value
\* components; the connected components subscribe and render from the
\* store's current state.
Mount ==
  /\ ~mounted
  /\ mounts < MaxMounts
  /\ mounted' = TRUE
  /\ mounts' = mounts + 1
  /\ fetchCalls' = allExamplesRender(allExamplesComponentWillMount(fetchCalls))
  /\ inFlight' = inFlight + (fetchCalls' - fetchCalls)
  /\ owners' = owners \o StartedBy(mounts', fetchCalls' - fetchCalls)
  /\ connected' = ConnectedTextField(tfHeap, rootHeap, root)
  /\ seen' = [o \in Observers |-> << root >>]
  /\ view' = MoneyTextFieldView(PageExampleProps)
  /\ tracker' = PageTrackers
  /\ trackerOut' = PageTrackersOut
  /\ received' = [i \in Trackers |-> Undefined]
  /\ last' = Event("mount", "", "", "")
  /\ UNCHANGED <<storeVars, select, list>>

\* The mounted examples are discarded: the connected components unsubscribe
\* and the remember-value components go with their state.  A fetch in flight
\* is not cancelled.
Unmount ==
  /\ mounted
  /\ mounted' = FALSE
  /\ connected' = NoProps
  /\ seen' = [o \in Observers |-> << >>]
  /\ tracker' = [i \in Trackers |-> NoTracker]
  /\ trackerOut' = [i \in Trackers |-> NoProps]
  /\ received' = [i \in Trackers |-> Undefined]
  /\ last' = Event("unmount", "", "", "")
  /\ UNCHANGED <<storeVars, mounts, fetchVars, view, select, list>>

\* React renders the mounted AllExamples again (new props or a forced
\* update): every example renders again, the remember-value components from
\* the state they hold.
Rerender ==
  /\ mounted
  /\ fetchCalls' = allExamplesRender(fetchCalls)
  /\ inFlight' = inFlight + (fetchCalls' - fetchCalls)
  /\ owners' = owners \o StartedBy(mounts, fetchCalls' - fetchCalls)
  /\ connected' = ConnectedTextField(tfHeap, rootHeap, root)
  /\ view' = MoneyTextFieldView(PageExampleProps)
  /\ trackerOut' = [i \in Trackers |-> trackerRender(i, tracker[i])]
  /\ last' = Event("rerender", "", "", "")
  /\ UNCHANGED <<storeVars, mounted, mounts, seen, tracker, received,
                 select, list>>

\* A buggy dispatch that calls the listeners before it stores what the
\* reducer returned: the subscribed components are given the state before
\* the action.
StoreDispatchBy_NotifiesFirst(op, body, owner, action) ==
  LET next == rootReducer(tfHeap, rootHeap, root, action)
  IN  /\ Len(next.tfHeap) <= MaxObjects
      /\ tfHeap' = next.tfHeap
      /\ rootHeap' = next.rootHeap
      /\ root' = next.root
      /\ dispatched' = TRUE
      /\ connected' = IF mounted
                        THEN ConnectedTextField(tfHeap, rootHeap, root)
                        ELSE connected
      /\ seen' = IF mounted
                   THEN [o \in Observers |-> notify(seen[o], root)]
                   ELSE seen
      /\ fetchCalls' = IF mounted THEN allExamplesRender(fetchCalls) ELSE fetchCalls
      /\ last' = EventBy(op, body.kind, action.type, action.payload, body, owner)
      /\ UNCHANGED <<mounted, mounts, trackerVars, view, select, list>>

\* store.dispatch(action): the root reducer runs and its result becomes the
\* store's state; then, before dispatch returns, the listener of every
\* subscribed component is called, in one order or another, and the
\* component renders from the new state.
StoreDispatchBy(op, body, owner, action) ==
  LET next == rootReducer(tfHeap, rootHeap, root, action)
  IN  /\ Len(next.tfHeap) <= MaxObjects
      /\ tfHeap' = next.tfHeap
      /\ rootHeap' = next.rootHeap
      /\ root' = next.root
      /\ dispatched' = TRUE
      /\ connected' = IF mounted
                        THEN ConnectedTextField(next.tfHeap, next.rootHeap, next.root)
                        ELSE connected
      /\ \E order \in NotifyOrders :
           seen' = IF mounted THEN notifyAll(seen, order, next.root) ELSE seen
      /\ fetchCalls' = IF mounted THEN allExamplesRender(fetchCalls) ELSE fetchCalls
      /\ last' = EventBy(op, body.kind, action.type, action.payload, body, owner)
      /\ UNCHANGED <<mounted, mounts, trackerVars, view, select, list>>

StoreDispatch(op, action) == StoreDispatchBy(op, NoBody, NoOwner, action)

\* Any caller of store.dispatch.
Dispatch(action) ==
  /\ StoreDispatch("dispatch", action)
  /\ inFlight' = inFlight + (fetchCalls' - fetchCalls)
  /\ owners' = owners \o StartedBy(mounts, fetchCalls' - fetchCalls)

\* A connected text field whose handler writes the value into the state
\* object itself, without a dispatch.
ConnectedOnChange_Direct(newValue) ==
  /\ mounted
  /\ connected.onChange = ConnectedHandler
  /\ tfHeap' = [tfHeap EXCEPT ![TextFieldRef].value = newValue]
  /\ connected' = ConnectedTextField(tfHeap', rootHeap, root)
  /\ last' = Event("connectedChange", "", "UPDATE_TEXT_FIELD", newValue)
  /\ UNCHANGED <<rootHeap, root, dispatched, mounted, mounts, seen,
                 fetchVars, trackerVars, view, select, list>>

\* A change event on the connected text field's input: the handler in its
\* onChange slot dispatches actions.updateValue(event.target.value).
ConnectedOnChange(newValue) ==
  /\ mounted
  /\ connected.onChange = ConnectedHandler
  /\ StoreDispatch("connectedChange", actionsUpdateValue(newValue))
  /\ inFlight' = inFlight + (fetchCalls' - fetchCalls)
  /\ owners' = owners \o StartedBy(mounts, fetchCalls' - fetchCalls)

\* The fetches in flight without the k-th.
Settled(fetches, k) == SubSeq(fetches, 1, k - 1) \o SubSeq(fetches, k + 1, Len(fetches))

\* Whether the components of the given mount are the ones mounted now.
IsMounted(mount) == mounted /\ mounts = mount

\* A chain that is cancelled when the components that started the fetch are
\* discarded: it dispatches only for a mount that is still there.
FetchSettle_CancelledOnDiscard(k, body) ==
  /\ k \in 1..Len(owners)
  /\ LET outcome == fetchServerData(body)
     IN  IF outcome.dispatch /\ IsMounted(owners[k])
           THEN /\ StoreDispatchBy("fetchSettle", body, owners[k], outcome.action)
                /\ inFlight' = inFlight - 1 + (fetchCalls' - fetchCalls)
                /\ owners' = Settled(owners, k) \o StartedBy(mounts, fetchCalls' - fetchCalls)
           ELSE /\ inFlight' = inFlight - 1
                /\ owners' = Settled(owners, k)
                /\ last' = EventBy("fetchSettle", body.kind, "", "", body, owners[k])
                /\ UNCHANGED <<storeVars, appVars, fetchCalls, trackerVars, view, select, list>>

\* The k-th fetch in flight settles with the server's answer, whether the
\* components that started it are still mounted or not: the last step of the
\* promise chain dispatches the fetched value, or the chain rejects and
\* nothing handles the rejection.
FetchSettle(k, body) ==
  /\ k \in 1..Len(owners)
  /\ LET outcome == fetchServerData(body)
     IN  IF outcome.dispatch
           THEN /\ StoreDispatchBy("fetchSettle", body, owners[k], outcome.action)
                /\ inFlight' = inFlight - 1 + (fetchCalls' - fetchCalls)
                /\ owners' = Settled(owners, k) \o StartedBy(mounts, fetchCalls' - fetchCalls)
           ELSE /\ inFlight' = inFlight - 1
                /\ owners' = Settled(owners, k)
                /\ last' = EventBy("fetchSettle", body.kind, "", "", body, owners[k])
                /\ UNCHANGED <<storeVars, appVars, fetchCalls, trackerVars, view, select, list>>

\* A caller other than the page makes an instance with props of its own:
\* new RememberValueComponent(props) and its first render.
TrackerConstruct(i, props) ==
  /\ ~tracker[i].made
  /\ tracker' = [tracker EXCEPT ![i] = trackerConstructor(props)]
  /\ trackerOut' = [trackerOut EXCEPT ![i] = trackerRender(i, tracker'[i])]
  /\ last' = Event("trackerConstruct", i, "", "")
  /\ UNCHANGED <<storeVars, appVars, fetchVars, received, view, select, list>>

\* A change event on a tracker's input: the handler in its onChange slot sets
\* the state, and React renders the instance again.
TrackerOnChange(i, newValue) ==
  /\ tracker[i].made
  /\ trackerOut[i].onChange = TrackerHandler(i)
  /\ tracker' = [tracker EXCEPT ![i] = trackerOnChange(@, newValue)]
  /\ trackerOut' = [trackerOut EXCEPT ![i] = trackerRender(i, tracker'[i])]
  /\ received' = [received EXCEPT ![i] = newValue]
  /\ last' = Event("trackerChange", i, "", newValue)
  /\ UNCHANGED <<storeVars, appVars, fetchVars, view, select, list>>

\* The parent renders a tracker again with new props.
TrackerReceiveProps(i, props) ==
  /\ tracker[i].made
  /\ props # tracker[i].props
  /\ tracker' = [tracker EXCEPT ![i] = trackerReceiveProps(@, props)]
  /\ trackerOut' = [trackerOut EXCEPT ![i] = trackerRender(i, tracker'[i])]
  /\ last' = Event("trackerProps", i, "", "")
  /\ UNCHANGED <<storeVars, appVars, fetchVars, received, view, select, list>>

\* <Select value={v} onChange={onChange} ref={ref} /> is mounted, with or
\* without a ref and a handler: the first render reads useState(false) and
\* useState(props.value), and its commit schedules both effects.
SelectMount(v, ref, onChange) ==
  /\ ~select.mounted
  /\ select' = [NoSelect EXCEPT !.mounted = TRUE, !.value = v,
                                !.ref = ref, !.onChange = onChange,
                                !.effects = [mount |-> TRUE, change |-> TRUE,
                                             didMount |-> FALSE]]
  /\ UNCHANGED <<storeVars, appVars, fetchVars, trackerVars, view, list, last>>

\* React runs the effects the last commit scheduled, in the order of the
\* code.  An effect that throws is caught by no error boundary: React
\* unmounts the Select.
SelectEffects ==
  /\ select.mounted
  /\ select.effects.mount \/ select.effects.change
  /\ LET result == IF select.effects.change
                     THEN selectChangeEffect(select.effects.didMount,
                                             select.ref, select.onChange)
                     ELSE EffectResult(0, FALSE)
     IN  select' = [select EXCEPT
           !.updates = IF select.effects.mount THEN selectMountEffect(@) ELSE @,
           !.calls = @ + result.calls,
           !.effects = [@ EXCEPT !.mount = FALSE, !.change = FALSE],
           !.threw = result.threw,
           !.mounted = ~result.threw]
  /\ UNCHANGED <<storeVars, appVars, fetchVars, trackerVars, view, list, last>>

\* A native event sets the value state: setValue(v) queues the update.
SelectSetValue(v) ==
  /\ select.mounted
  /\ select.changes < MaxChanges
  /\ select.updates.value # v
  /\ select' = [select EXCEPT !.updates.value = v]
  /\ UNCHANGED <<storeVars, appVars, fetchVars, trackerVars, view, list, last>>

\* React renders the Select with the queued updates, after the effects of the
\* commit before: the effect on [] is never scheduled again, the effect on
\* [value] is scheduled when value differs from the value of the last commit.
SelectRender ==
  /\ select.mounted
  /\ select.updates # NoUpdates
  /\ ~select.effects.mount /\ ~select.effects.change
  /\ LET didMount == select.didMount \/ select.updates.didMount
         value == IF select.updates.value # Undefined
                    THEN select.updates.value ELSE select.value
     IN  select' = [select EXCEPT
           !.didMount = didMount,
           !.value = value,
           !.updates = NoUpdates,
           !.effects = [mount |-> FALSE, change |-> value # select.value,
                        didMount |-> didMount],
           !.changes = IF value # select.value THEN @ + 1 ELSE @]
  /\ UNCHANGED <<storeVars, appVars, fetchVars, trackerVars, view, list, last>>

NextSelect ==
  \/ \E v \in Values, ref \in SelectRefs, onChange \in SelectHandlers :
       SelectMount(v, ref, onChange)
  \/ SelectEffects
  \/ \E v \in Values : SelectSetValue(v)
  \/ SelectRender

\* The Select alone.
SpecSelect == Init /\ [][NextSelect]_vars

\* <List refs={refs}> is mounted with n refs, each attached to a ListItem or
\* not: useState(false), useState(0), no item active (ListItem's
\* defaultActive is not passed); the commit schedules the effect.
ListMount(n, attached) ==
  /\ ~list.mounted
  /\ list' = listCommit([NoList EXCEPT
                !.mounted = TRUE, !.refs = n,
                !.items = [k \in 1..n |-> Item(attached[k], FALSE)]])
  /\ UNCHANGED <<storeVars, appVars, fetchVars, trackerVars, view, select, last>>

\* React runs the effect of the last commit, after the commit and apart
\* from it.
ListEffect ==
  /\ list.effect.pending
  /\ list' = listFlushEffect(list)
  /\ UNCHANGED <<storeVars, appVars, fetchVars, trackerVars, view, select, last>>

\* A focus event on the <ul>: onFocus sets active and the List renders,
\* after the effect of the commit before.  (On an active list
\* setActive(true) changes nothing.)
ListFocus ==
  /\ list.mounted
  /\ listUl.onFocus
  /\ ~list.active
  /\ list' = listCommit([listFlushEffect(list) EXCEPT
                !.active = TRUE,
                !.key = "", !.prevIndex = list.activeIndex, !.prevented = FALSE,
                !.handled = FALSE])
  /\ UNCHANGED <<storeVars, appVars, fetchVars, trackerVars, view, select, last>>

\* A key event on the <ul>: onKeyDown runs when it is attached.
ListKeyDown(key) ==
  /\ list.mounted
  /\ list' = listAfterKey(list, key, listUl.onKeyDown,
                IF listUl.onKeyDown
                  THEN listOnKeyDown(list.activeIndex, list.refs, key)
                  ELSE KeyResult(list.activeIndex, FALSE))
  /\ UNCHANGED <<storeVars, appVars, fetchVars, trackerVars, view, select, last>>

\* onKeyDown(keyEvent) is called with a key event: the handler the List
\* defines, applied to the state of the last render.  The <ul> of the
\* listing does not pass it on, so this is the handler called as a function,
\* as by a <ul> that is given it.
ListOnKeyDown(key) ==
  /\ list.mounted
  /\ list' = listAfterKey(list, key, TRUE,
                listOnKeyDown(list.activeIndex, list.refs, key))
  /\ UNCHANGED <<storeVars, appVars, fetchVars, trackerVars, view, select, last>>

NextList ==
  \/ \E n \in 0..MaxRefs : \E attached \in [1..n -> BOOLEAN] : ListMount(n, attached)
  \/ ListEffect
  \/ ListFocus
  \/ \E key \in Keys : ListKeyDown(key)
  \/ \E key \in Keys : ListOnKeyDown(key)

\* The List alone: as the listing renders it, and its key handler called
\* with key events.
SpecList == Init /\ [][NextList]_vars

\* The steps of the store and of the components connected to it.
NextStore ==
  \/ Rerender
  \/ \E action \in Actions : Dispatch(action)
  \/ \E newValue \in Values : ConnectedOnChange(newValue)
  \/ \E k \in 1..Len(owners), body \in Bodies : FetchSettle(k, body)

\* The steps of the store-connected examples, mounted and discarded any
\* number of times up to MaxMounts.
NextApp ==
  \/ Mount
  \/ Unmount
  \/ NextStore

\* The steps of the remember-value components.
NextTracker ==
  \/ \E i \in Trackers, props \in TrackerProps : TrackerConstruct(i, props)
  \/ \E i \in Trackers, newValue \in Values : TrackerOnChange(i, newValue)
  \/ \E i \in Trackers, props \in TrackerProps : TrackerReceiveProps(i, props)

\* All the examples on one page, as index.jsx renders them: mounted once and
\* never discarded, the remember-value components made by the mount.  The
\* store is kept to MaxSharedObjects state objects.
Next ==
  \/ Mount
  \/ NextStore /\ Len(tfHeap') <= MaxSharedObjects
  \/ \E i \in Trackers, newValue \in Values : TrackerOnChange(i, newValue)
  \/ \E i \in Trackers, props \in PageTrackerProps : TrackerReceiveProps(i, props)

Spec == Init /\ [][Next]_vars

\* The change events of the wrappers of one page: the user types in the
\* connected text field and in the remember-value components, while the
\* fetch started on mount is pending.
NextChanges ==
  \/ Mount
  \/ \E newValue \in Values : ConnectedOnChange(newValue)
  \/ \E i \in Trackers, newValue \in Values : TrackerOnChange(i, newValue)

SpecChanges == Init /\ [][NextChanges]_vars

\* The store-connected examples alone.
SpecApp == Init /\ [][NextApp]_vars

\* The race of the one fetch started on mount with the user's typing in the
\* connected text field: one mount, and no other caller of dispatch.
NextRace ==
  \/ Mount
  \/ \E newValue \in Values : ConnectedOnChange(newValue)
  \/ \E k \in 1..Len(owners), body \in Bodies : FetchSettle(k, body)

SpecRace == Init /\ [][NextRace]_vars

\* The remember-value components alone.
SpecTracker == Init /\ [][NextTracker]_vars

\* ------------------------------------------------------------------ stand-alone renders

\* <PresentationalTextField {...props} />
RenderTextField(props) ==
  /\ view' = TextFieldView(props)
  /\ UNCHANGED <<storeVars, appVars, fetchVars, trackerVars, select, list, last>>

\* <CompositionalMoneyTextField {...props} />
RenderMoneyTextField(props) ==
  /\ view' = MoneyTextFieldView(props)
  /\ UNCHANGED <<storeVars, appVars, fetchVars, trackerVars, select, list, last>>

NextRender ==
  \/ \E props \in RenderProps : RenderTextField(props)
  \/ \E props \in RenderProps : RenderMoneyTextField(props)

SpecRender == Init /\ [][NextRender]_vars

\* ------------------------------------------------------------------ claims: the store

\* The last event was a call of store.dispatch, by any caller or by the
\* connected text field's handler.
LastWasDispatch == last.op \in {"dispatch", "connectedChange"}

\* C1, as stated: after dispatching { type: "UPDATE_VALUE", payload: v } with v
\* different from the current textField.value, textField.value is v.
C1_UpdateValueTypeApplied ==
  (LastWasDispatch /\ last.type = "UPDATE_VALUE" /\ last.payload # last.prevValue)
    => TextFieldValue = last.payload

\* C1, amended: after dispatching { type: "UPDATE_TEXT_FIELD", payload: v } with
\* v different from the current textField.value, textField.value is v when
\* dispatch returns.
C1_UpdateApplied ==
  (LastWasDispatch /\ last.type = "UPDATE_TEXT_FIELD" /\ last.payload # last.prevValue)
    => TextFieldValue = last.payload

C1_Witness ==
  /\ last.op = "dispatch"
  /\ last.type = "UPDATE_TEXT_FIELD"
  /\ last.prevValue = "asdf"
  /\ last.payload = "abc"
  /\ TextFieldValue = "abc"

\* C2: a dispatch whose payload equals the current textField.value returns the
\* very same state objects: the text-field state (updateValue returns `state`)
\* and the container state are reference-equal to those before the dispatch.
C2_SameValueSameReference ==
  (LastWasDispatch /\ last.payload = last.prevValue)
    => /\ TextFieldRef = last.prevTf
       /\ root = last.prevRoot
       /\ TextFieldValue = last.prevValue

C2_Witness ==
  /\ last.op = "dispatch"
  /\ last.type = "UPDATE_TEXT_FIELD"
  /\ last.payload = "abc"
  /\ last.prevValue = "abc"
  /\ root = last.prevRoot

\* C3, as stated: dispatching UPDATE_VALUE with a new value yields a new
\* container state object whose textField sub-state is new.
C3_UpdateValueTypeNewState ==
  (LastWasDispatch /\ last.type = "UPDATE_VALUE" /\ last.payload # last.prevValue)
    => /\ root # last.prevRoot
       /\ TextFieldRef # last.prevTf

\* C3, amended: dispatching UPDATE_TEXT_FIELD with a new value yields a new
\* container state object and a new textField state object holding the value;
\* the old objects are untouched, and every key of the container state other
\* than textField holds the reference it held before.
C3_NewStateSharesSiblings ==
  (LastWasDispatch /\ last.type = "UPDATE_TEXT_FIELD" /\ last.payload # last.prevValue)
    => /\ root # last.prevRoot
       /\ root = Len(rootHeap)
       /\ TextFieldRef # last.prevTf
       /\ TextFieldRef = Len(tfHeap)
       /\ TextFieldValue = last.payload
       /\ rootHeap[last.prevRoot].textField = last.prevTf
       /\ tfHeap[last.prevTf].value = last.prevValue
       /\ DOMAIN rootHeap[root] = DOMAIN rootHeap[last.prevRoot]
       /\ \A k \in DOMAIN rootHeap[root] \ {"textField"} :
            rootHeap[root][k] = rootHeap[last.prevRoot][k]

C3_Witness ==
  /\ last.op = "dispatch"
  /\ last.type = "UPDATE_TEXT_FIELD"
  /\ last.payload # last.prevValue
  /\ root # last.prevRoot
  /\ TextFieldRef # last.prevTf
  /\ TextFieldValue = last.payload

\* C4: once mounted, the value slot the connected text field passes to the
\* text field is state.textField.value of the current container state, and
\* its onChange slot is the handler of mapDispatchToProps.
C4_BinderIsDerivedView ==
  mounted => /\ connected.value = TextFieldValue
             /\ connected.onChange = mapDispatchToProps.onChange

C4_Witness ==
  /\ mounted
  /\ last.op = "connectedChange"
  /\ last.prevValue = "abc"
  /\ TextFieldValue = ""
  /\ connected.value = ""

\* C5: before any dispatch the container state is { textField: { value: "asdf" } },
\* and a mounted connected text field passes value = "asdf".
C5_DefaultState ==
  ~dispatched => /\ DOMAIN rootHeap[root] = {"textField"}
                 /\ tfHeap[TextFieldRef] = [value |-> "asdf"]
                 /\ mounted => connected.value = "asdf"

C5_Witness ==
  /\ ~dispatched
  /\ mounted
  /\ TextFieldValue = "asdf"
  /\ connected.value = "asdf"

\* ------------------------------------------------------------------ claims: the value tracker

\* C6: a change notification carrying newValue sets the tracker's value to
\* newValue, and the render that follows passes value = newValue, whatever the
\* value before and whatever value slot the caller supplied.
C6_ChangeSetsValue ==
  last.op = "trackerChange"
    => /\ tracker[last.who].value = last.payload
       /\ trackerOut[last.who].value = last.payload

C6_Witness ==
  /\ last.op = "trackerChange"
  /\ last.payload = "abc"
  /\ tracker[last.who].props.value = Undefined
  /\ tracker[last.who].value = "abc"
  /\ trackerOut[last.who].value = "abc"

\* C7, as stated: a new tracker holds the empty string, or the value its caller
\* supplied when the caller supplied one.
C7_InitialValueFromCaller ==
  last.op = "trackerConstruct"
    => tracker[last.who].value =
         (IF tracker[last.who].props.value = Undefined
            THEN "" ELSE tracker[last.who].props.value)

\* C7, amended: a new tracker holds the empty string and passes it as value,
\* also when its caller supplied a value.
C7_InitialValueEmpty ==
  last.op = "trackerConstruct"
    => /\ tracker[last.who].value = ""
       /\ trackerOut[last.who].value = ""

C7_Witness ==
  /\ last.op = "trackerConstruct"
  /\ tracker[last.who].props.value = "abc"
  /\ tracker[last.who].value = ""

\* ------------------------------------------------------------------ claims: the renderers

\* The place of the <input> among the rendered children, and whether an
\* element stands before it (after the label) or after it.
InputAt(output) == CHOOSE i \in 1..Len(output) : output[i].el = "input"
HasPrefixElement(output) == InputAt(output) > 2
HasPostfixElement(output) == InputAt(output) < Len(output)
Present(slot) == slot \notin {UndefinedNode, NullNode}

\* C8: the money text field always passes, and renders, its own prefix and
\* postfix, also when its caller supplies a prefix or a postfix.
C8_FixedDecorationsWin ==
  view.component = "CompositionalMoneyTextField"
    => /\ view.passed.prefix = MoneyPrefix
       /\ view.passed.postfix = MoneyPostfix
       /\ Len(view.output) = 4
       /\ view.output[2] = MoneyPrefix
       /\ view.output[4] = MoneyPostfix

C8_Witness ==
  /\ view.component = "CompositionalMoneyTextField"
  /\ view.props.prefix = Div("@")
  /\ view.props.postfix = Div("@")
  /\ view.output[2] = Div("$")
  /\ view.output[4] = Div("clear")

\* C9: the money text field passes every slot other than prefix and postfix
\* to the text field as its caller supplied it.
C9_OtherSlotsForwarded ==
  view.component = "CompositionalMoneyTextField"
    => /\ view.passed.labelText = view.props.labelText
       /\ view.passed.onChange = view.props.onChange
       /\ view.passed.value = view.props.value
       /\ view.passed.other = view.props.other

C9_Witness ==
  /\ view.component = "CompositionalMoneyTextField"
  /\ view.props.labelText = "Name"
  /\ view.props.onChange = CallerHandler
  /\ view.props.value = "abc"
  /\ view.props.other = "id-1"
  /\ view.passed.labelText = "Name"
  /\ view.passed.other = "id-1"

\* C10: the text field's output holds a prefix element only if the prefix slot
\* it was given is present, a postfix element only if the postfix slot is
\* present, and never an undefined or null child.
C10_AbsentSlotsOmitted ==
  view.component # "none"
    => /\ HasPrefixElement(view.output) => Present(view.passed.prefix)
       /\ HasPostfixElement(view.output) => Present(view.passed.postfix)
       /\ \A i \in 1..Len(view.output) : view.output[i].el \notin {Undefined, Null}

C10_Witness ==
  /\ view.component = "PresentationalTextField"
  /\ view.props.prefix = UndefinedNode
  /\ view.props.postfix = Div("@")
  /\ ~HasPrefixElement(view.output)
  /\ HasPostfixElement(view.output)
  /\ Len(view.output) = 3

\* C11: the text field's output lists, in this order, the label, the prefix
\* if present, the input bound to value and onChange, and the postfix if
\* present; the label's text is the labelText slot, "Text Field" when absent.
C11_OutputOrder ==
  view.component # "none"
    => view.output =
         << Node("label",
                 IF view.passed.labelText = Undefined
                   THEN "Text Field" ELSE view.passed.labelText,
                 Undefined, Undefined) >>
         \o (IF Present(view.passed.prefix) THEN << view.passed.prefix >> ELSE << >>)
         \o << Node("input", Undefined, view.passed.onChange, view.passed.value) >>
         \o (IF Present(view.passed.postfix) THEN << view.passed.postfix >> ELSE << >>)

C11_Witness ==
  /\ view.component = "PresentationalTextField"
  /\ view.props.labelText = Undefined
  /\ view.props.prefix = Div("@")
  /\ view.props.postfix = Div("@")
  /\ view.props.value = "abc"
  /\ view.props.onChange = CallerHandler
  /\ Len(view.output) = 4
  /\ view.output[1].content = "Text Field"
  /\ view.output[3].el = "input"

\* C12: an input record without onChange violates the text field's slot
\* contract (React warns about onChange), and an input record lacking any
\* other slot does not.
C12_OnlyOnChangeRequired ==
  view.component = "PresentationalTextField"
    => view.warnings = (IF view.props.onChange = Undefined THEN {"onChange"} ELSE {})

\* ------------------------------------------------------------------ claims: the fetch

\* C13: the fetch is started once per mount and by nothing else: at every
\* moment the number of fetches started equals the number of mounts, whatever
\* renders again the mounted instance (a forced render, a dispatch, a change
\* event, the settling of a fetch).
C13_FetchOncePerMount == fetchCalls = mounts

C13_Witness ==
  /\ last.op = "rerender"
  /\ dispatched
  /\ TextFieldValue = "abc"
  /\ mounts = MaxMounts
  /\ fetchCalls = MaxMounts

\* C14: when a fetch completes successfully with value v (the chain reaches
\* its last step), an update action carrying v has been dispatched:
\* textField.value is v and a mounted connected text field shows v.
C14_FetchedValueDispatched ==
  (last.op = "fetchSettle" /\ last.body.kind = "encoded")
    => /\ dispatched
       /\ last.type = actionsUpdateValue(last.body.value).type
       /\ last.payload = last.body.value
       /\ TextFieldValue = last.body.value
       /\ mounted => connected.value = last.body.value

C14_Witness ==
  /\ last.op = "fetchSettle"
  /\ last.body = [kind |-> "encoded", value |-> "abc"]
  /\ last.prevValue = "asdf"
  /\ mounted
  /\ TextFieldValue = "abc"
  /\ connected.value = "abc"

\* The server answers with which the promise chain rejects: no answer, a body
\* that is not JSON, a body that response.json() turns into an object.
FailedBodyKinds == {"network", "malformed", "object"}

\* C15: when the fetch fails (network or parse failure) nothing is dispatched
\* and the container state stays as it was, to the very objects; the mounted
\* components stay mounted and the connected text field keeps the input
\* record it had.
C15_FailedFetchLeavesState ==
  (last.op = "fetchSettle" /\ last.body.kind \in FailedBodyKinds)
    => /\ last.type = ""
       /\ dispatched = last.prevDispatched
       /\ root = last.prevRoot
       /\ TextFieldRef = last.prevTf
       /\ TextFieldValue = last.prevValue
       /\ mounted = last.prevMounted
       /\ connected = last.prevConnected
       /\ mounted => connected.value = last.prevValue

C15_Witness ==
  /\ last.op = "fetchSettle"
  /\ last.body.kind = "malformed"
  /\ mounted
  /\ ~dispatched
  /\ TextFieldValue = "asdf"
  /\ connected.value = "asdf"

\* ------------------------------------------------------------------ claims: the container and its observers

\* The store after the step is what the root reducer makes of the store
\* before it for some action.
IsDispatchStep ==
  \E action \in Actions :
    LET next == rootReducer(tfHeap, rootHeap, root, action)
    IN  /\ tfHeap' = next.tfHeap
        /\ rootHeap' = next.rootHeap
        /\ root' = next.root

\* The events that call store.dispatch.
DispatchOps == {"dispatch", "connectedChange", "fetchSettle"}

\* C16: the container changes only in a dispatch step: a step that changes
\* the current state or any state object is a call of store.dispatch and
\* leaves what the root reducer returns; mounts, renders and the steps of the
\* remember-value components leave the store as it is.
C16_OnlyDispatchChangesStore ==
  [][ /\ (<<tfHeap, rootHeap, root>>' # <<tfHeap, rootHeap, root>>)
           => (last'.op \in DispatchOps /\ IsDispatchStep)
      /\ (last'.op \notin DispatchOps) => UNCHANGED storeVars ]_vars

C16_Witness ==
  /\ last.op = "trackerChange"
  /\ last.payload = "abc"
  /\ dispatched
  /\ mounted
  /\ TextFieldValue = ""
  /\ root = last.prevRoot
  /\ TextFieldRef = last.prevTf

\* States are numbered as they are produced: s is a run of states with none
\* skipped and none out of order.
InOrderNoneSkipped(s) == \A k \in 1..(Len(s) - 1) : s[k + 1] = s[k] + 1

C18_SelectReportsChangesOnly ==
  select.onChange # Undefined
    => /\ select.calls <= select.changes
       /\ (~select.effects.mount /\ ~select.effects.change)
            => select.calls = select.changes

\* ------------------------------------------------------------------ claims: change events

\* C19: one wrapper applies its change events in the order received: after
\* each change event the remember-value component holds and shows the value
\* of that event, and it still holds the value of its latest event whatever
\* happened since; after each change event of the connected text field the
\* container holds and the field shows the value of that event, the state
\* object being a new one exactly when the value differs from the one before.
C19_ChangesAppliedInOrder ==
  /\ \A i \in Trackers :
       received[i] # Undefined
         => /\ tracker[i].value = received[i]
            /\ trackerOut[i].value = received[i]
  /\ last.op = "trackerChange" => tracker[last.who].value = last.payload
  /\ last.op = "connectedChange"
       => /\ TextFieldValue = last.payload
          /\ connected.value = last.payload
          /\ (TextFieldRef # last.prevTf) <=> (last.payload # last.prevValue)

C19_Witness ==
  /\ last.op = "connectedChange"
  /\ last.payload = ""
  /\ last.prevValue = "abc"
  /\ Len(tfHeap) = 3
  /\ TextFieldValue = ""
  /\ connected.value = ""
  /\ tracker["RememberedTextField"].value = "asdf"
  /\ received["RememberedTextField"] = "asdf"
  /\ tracker["RememberedMoneyTextField"].value = "abc"

\* C20: the value a remember-value component holds changes only in a change
\* event of that very instance: new props, a dispatch, the settling of a
\* fetch, a mount or render of the connected examples and a change event of
\* the other instance leave it as it is.
C20_ValueChangesOnlyByOwnHandler ==
  [][ \A i \in Trackers :
        (tracker[i].made /\ tracker'[i].value # tracker[i].value)
          => (last'.op = "trackerChange" /\ last'.who = i) ]_vars

C20_Witness ==
  /\ last.op = "trackerProps"
  /\ last.who = "RememberedMoneyTextField"
  /\ tracker["RememberedMoneyTextField"].props.value = "abc"
  /\ tracker["RememberedMoneyTextField"].value = "asdf"
  /\ trackerOut["RememberedMoneyTextField"].value = "asdf"
  /\ dispatched

\* ------------------------------------------------------------------ claims: the remember-value component's render

\* C21: the handler an instance passes is the one bound at construction, the
\* same on every render of the instance whatever the props and the value, so
\* a render with the value and the props of the render before passes an equal
\* input record.
C21_HandlerBoundOnce ==
  [][ \A i \in Trackers :
        (tracker[i].made /\ tracker'[i].made)
          => /\ trackerOut'[i].onChange = trackerOut[i].onChange
             /\ (tracker'[i].value = tracker[i].value
                   /\ tracker'[i].props = tracker[i].props)
                  => trackerOut'[i] = trackerOut[i] ]_vars

C21_Witness ==
  /\ last.op = "trackerChange"
  /\ last.who = "RememberedTextField"
  /\ last.payload = "asdf"
  /\ tracker["RememberedTextField"].props.onChange = CallerHandler
  /\ tracker["RememberedTextField"].value = "asdf"
  /\ trackerOut["RememberedTextField"].onChange = TrackerHandler("RememberedTextField")
  /\ tracker["RememberedMoneyTextField"].made
  /\ trackerOut["RememberedMoneyTextField"].onChange # trackerOut["RememberedTextField"].onChange

\* C24: whatever value and onChange the caller passes, the wrapped component
\* receives the instance's value and the instance's own handler, and every
\* other slot as the caller passed it.
C24_TrackerOverridesValueAndHandler ==
  \A i \in Trackers :
    tracker[i].made
      => /\ trackerOut[i].value = tracker[i].value
         /\ trackerOut[i].onChange = TrackerHandler(i)
         /\ trackerOut[i].labelText = tracker[i].props.labelText
         /\ trackerOut[i].prefix = tracker[i].props.prefix
         /\ trackerOut[i].postfix = tracker[i].props.postfix
         /\ trackerOut[i].other = tracker[i].props.other

C24_Witness ==
  /\ tracker["RememberedMoneyTextField"].made
  /\ tracker["RememberedMoneyTextField"].props.value = "abc"
  /\ tracker["RememberedMoneyTextField"].props.onChange = CallerHandler
  /\ tracker["RememberedMoneyTextField"].value = ""
  /\ trackerOut["RememberedMoneyTextField"].value = ""
  /\ trackerOut["RememberedMoneyTextField"].prefix = Div("@")
  /\ trackerOut["RememberedMoneyTextField"].other = "id-1"

\* ------------------------------------------------------------------ claims: the reducer's frame

\* C22: the reducer never modifies a state object it is given: every state
\* object keeps its content in every step, and a step that changes
\* textField.value leaves the current state in an object that did not exist
\* before.
C22_StateObjectsNeverModified ==
  [][ /\ Len(tfHeap') >= Len(tfHeap)
      /\ \A k \in 1..Len(tfHeap) : tfHeap'[k] = tfHeap[k]
      /\ (TextFieldValue' # TextFieldValue)
           => (TextFieldRef' # TextFieldRef /\ TextFieldRef' > Len(tfHeap)) ]_vars

C22_Witness ==
  /\ last.op = "fetchSettle"
  /\ last.payload = ""
  /\ last.prevValue = "abc"
  /\ last.prevTf = 2
  /\ tfHeap[1].value = "asdf"
  /\ tfHeap[last.prevTf].value = "abc"
  /\ TextFieldRef = 3
  /\ TextFieldValue = ""

\* C25: for every action whose type the reducer does not handle it returns
\* the very state object it was given: the dispatch leaves the container
\* state, to the objects, and the connected text field's input record as they
\* were.
C25_UnhandledTypeSameObject ==
  (last.op = "dispatch" /\ last.type # "UPDATE_TEXT_FIELD")
    => /\ root = last.prevRoot
       /\ TextFieldRef = last.prevTf
       /\ TextFieldValue = last.prevValue
       /\ connected = last.prevConnected

C25_Witness ==
  /\ last.op = "dispatch"
  /\ last.type = "UPDATE_VALUE"
  /\ last.payload = "abc"
  /\ last.prevValue = ""
  /\ TextFieldValue = ""
  /\ mounted
  /\ connected.value = ""

\* ------------------------------------------------------------------ claims: the fetch and the user

\* The promise chain settles after the components that started the fetch
\* were discarded, whether the examples have been mounted again since or not.
LateSettle == last.op = "fetchSettle" /\ ~(last.prevMounted /\ last.owner = mounts)

\* C23, as stated: a fetch that resolves after its renderer was discarded
\* dispatches to no effect: the container state stays as it was.
C23_LateDispatchIsNoOp ==
  LateSettle
    => /\ root = last.prevRoot
       /\ TextFieldRef = last.prevTf
       /\ TextFieldValue = last.prevValue

\* C23, amended: a fetch that resolves after its renderer was discarded
\* still dispatches, and the dispatch is applied to the container as any
\* other: textField.value is the fetched value, in a new state object
\* exactly when it differs from the value before; no error state follows,
\* what is mounted stays mounted.
C23_LateDispatchApplied ==
  (LateSettle /\ last.body.kind = "encoded")
    => /\ dispatched
       /\ last.type = actionsUpdateValue(last.body.value).type
       /\ TextFieldValue = last.body.value
       /\ (TextFieldRef # last.prevTf) <=> (last.body.value # last.prevValue)
       /\ mounted = last.prevMounted

C23_Witness ==
  /\ LateSettle
  /\ last.body = [kind |-> "encoded", value |-> "abc"]
  /\ last.owner = 1
  /\ last.prevValue = "asdf"
  /\ mounts = 2
  /\ mounted
  /\ TextFieldValue = "abc"

\* C26: the user's change events and the settling of the fetch interleave in
\* either order and the dispatch applied last decides the value: a fetch
\* that resolves after the user typed overwrites the typed value, and a
\* change event after the fetch settled overwrites the fetched one.
C26_LastDispatchWins ==
  /\ (last.op = "fetchSettle" /\ last.body.kind = "encoded" /\ last.prevDispatched)
       => /\ TextFieldValue = last.body.value
          /\ connected.value = last.body.value
  /\ (last.op = "connectedChange" /\ inFlight = 0)
       => /\ TextFieldValue = last.payload
          /\ connected.value = last.payload

C26_Witness ==
  /\ last.op = "fetchSettle"
  /\ last.body = [kind |-> "encoded", value |-> ""]
  /\ last.prevDispatched
  /\ last.prevValue = "abc"
  /\ last.prevConnected.value = "abc"
  /\ TextFieldValue = ""
  /\ connected.value = ""

\* ------------------------------------------------------------------ claims: the List

\* ArrowUp at index 0 and ArrowDown at the last index leave activeIndex as it
\* was and do not prevent the browser's default.
ListEdgesHold ==
  /\ (list.key = "ArrowUp" /\ list.prevIndex = 0)
       => (list.activeIndex = 0 /\ ~list.prevented)
  /\ (list.key = "ArrowDown" /\ list.prevIndex = list.refs - 1)
       => (list.activeIndex = list.prevIndex /\ ~list.prevented)

\* C27, as stated: after any key events activeIndex is a valid index of
\* props.refs, 0 <= activeIndex <= props.refs.length - 1, for every length of
\* props.refs including 0, and ArrowUp at 0 and ArrowDown at the last index
\* leave it unchanged.
C27_ActiveIndexValidForEveryLength ==
  list.mounted
    => /\ 0 <= list.activeIndex
       /\ list.activeIndex <= list.refs - 1
       /\ ListEdgesHold

\* C27, amended: for every length of props.refs of at least 1, activeIndex is
\* a valid index after any key events, whether they reach onKeyDown or not
\* (for length 0 no index is valid); ArrowUp at 0 and ArrowDown at the last
\* index leave activeIndex unchanged.
C27_ActiveIndexValid ==
  list.mounted
    => /\ list.refs >= 1 => (0 <= list.activeIndex /\ list.activeIndex <= list.refs - 1)
       /\ ListEdgesHold

C27_Witness ==
  /\ list.mounted
  /\ list.refs = 3
  /\ list.handled
  /\ list.key = "ArrowDown"
  /\ list.prevIndex = 2
  /\ list.activeIndex = 2
  /\ ~list.prevented

====
